---- MODULE Spec2Model ----
(***************************************************************************)
(* Model of the official-document formatter (src/公文格式生成.py).          *)
(*                                                                         *)
(* Texts are sequences of characters.  The module is plain ASCII, so the   *)
(* non-ASCII characters of the source are written by name:                 *)
(*   "yi" "er" "san" "si" "wu" "liu" "qi" "ba" "jiu" "shi"  the numerals   *)
(*        U+4E00 ... U+5341 (one .. ten) of the heading tokens,            *)
(*   "dun"  the enumeration comma U+3001,                                  *)
(*   "LP" "RP"  the full-width parentheses U+FF08 and U+FF09,              *)
(*   "x"  any other non-blank character.                                   *)
(* A length Pt(n) is <<n>>, a length Mm(n) is <<"mm", n>>, and an          *)
(* attribute that was never assigned is None.                              *)
(***************************************************************************)
EXTENDS Integers, Sequences, FiniteSets

VARIABLES
    pc,            \* position of the run
    text,          \* argument of a detect_title_level call
    level,         \* its result ("none" before the call)
    argInput,      \* the CLI's positional input: "absent", "missing", "present"
    input_path,    \* main's input_path: "unset", "missing", "present"
    organization,  \* args.organization
    doc,           \* the paragraphs of the document read from input_path
    page,          \* page geometry of new_doc's section
    body,          \* the paragraphs of new_doc
    footers,       \* per section of new_doc, the paragraphs of its footer
    i,             \* enumerate index of the section loop in add_page_numbers
    fieldFailed,   \* the dynamic attempt raised
    saveFailed,    \* new_doc.save raised
    file,          \* the output file: NoFile, or what was saved
    verified,      \* outcome of verify_page_numbers
    result,        \* what format_document returned
    exitStatus     \* the process's exit status, Running before it ends

vars == <<pc, text, level, argInput, input_path, organization, doc, page, body,
          footers, i, fieldFailed, saveFailed, file, verified, result, exitStatus>>

----------------------------------------------------------------------------
(* Bounds of the model *)

MaxLen == 4
MaxParas == 3
MaxSections == 3
MaxFooterParas == 2

----------------------------------------------------------------------------
(* Values *)

None == <<>>
Pt(n) == <<n>>
Mm(n) == <<"mm", n>>
NoFile == [saved |-> FALSE]
Running == <<>>
Exit(n) == <<n>>

Whitespace == {" "}
DigitChars == <<"0", "1", "2", "3", "4", "5", "6", "7", "8", "9">>
CJKNumerals == {"yi", "er", "san", "si", "wu", "liu", "qi", "ba", "jiu", "shi"}

\* The characters the checked texts are built from.
Alphabet == {" ", "yi", "dun", "LP", "RP", "0", "1", "9", ".", "x"}

----------------------------------------------------------------------------
(* str.strip, str.startswith and the f-string conversion of an int *)

RECURSIVE LStrip(_)
LStrip(s) ==
    IF s # <<>> /\ Head(s) \in Whitespace THEN LStrip(Tail(s)) ELSE s

RECURSIVE RStrip(_)
RStrip(s) ==
    IF s # <<>> /\ s[Len(s)] \in Whitespace
    THEN RStrip(SubSeq(s, 1, Len(s) - 1))
    ELSE s

Strip(s) == RStrip(LStrip(s))

StartsWith(s, prefix) ==
    /\ Len(prefix) <= Len(s)
    /\ SubSeq(s, 1, Len(prefix)) = prefix

StartsWithAny(s, prefixes) == \E p \in prefixes : StartsWith(s, p)

RECURSIVE IntToStr(_)
IntToStr(n) ==
    IF n < 10
    THEN <<DigitChars[n + 1]>>
    ELSE IntToStr(n \div 10) \o <<DigitChars[(n % 10) + 1]>>

----------------------------------------------------------------------------
(* OfficialDocumentFormatter.format_settings *)

format_settings ==
    [ page |->
        [ height |-> Mm(297), width |-> Mm(210),
          top_margin |-> Mm(37), bottom_margin |-> Mm(32),
          left_margin |-> Mm(28), right_margin |-> Mm(26) ],
      fonts |->
        [ title  |-> [size |-> Pt(22), name |-> "FZXiaoBiaoSong"],
          level1 |-> [size |-> Pt(16), name |-> "SimHei", bold |-> TRUE],
          level2 |-> [size |-> Pt(16), name |-> "KaiTi_GB2312", bold |-> TRUE],
          level3 |-> [size |-> Pt(16), name |-> "FangSong_GB2312", bold |-> TRUE],
          body   |-> [size |-> Pt(16), name |-> "FangSong_GB2312", bold |-> FALSE],
          footer |-> [size |-> Pt(14), name |-> "Times New Roman", bold |-> FALSE] ],
      spacing |->
        [ line_spacing |-> Pt(28), title_spacing |-> Pt(0),
          body_spacing |-> Pt(0), first_line_indent |-> Mm(17) ] ]

\* The font names that hold one of the East Asian family markers of line 81.
EastAsianNames == {"FZXiaoBiaoSong", "SimHei", "KaiTi_GB2312", "FangSong_GB2312"}

----------------------------------------------------------------------------
(* detect_title_level *)

Level1Tokens == { <<n, "dun">> : n \in CJKNumerals }

Level2Tokens == { <<"LP", n, "RP">> : n \in CJKNumerals }

RangeStart == 1
RangeStop == 20
Level3DotTokensOffByOne ==
    { IntToStr(n) \o <<".">> : n \in RangeStart .. (RangeStop - 2) }

Level3DotTokens == { IntToStr(n) \o <<".">> : n \in RangeStart .. (RangeStop - 1) }

Level3ParenTokens ==
    { <<"LP", "1", "RP">>, <<"LP", "2", "RP">>, <<"LP", "3", "RP">>,
      <<"LP", "4", "RP">>, <<"LP", "5", "RP">>, <<"LP", "6", "RP">>,
      <<"LP", "7", "RP">>, <<"LP", "8", "RP">>, <<"LP", "9", "RP">>,
      <<"LP", "1", "0", "RP">> }

detect_title_level(t) ==
    LET s == Strip(t) IN
    IF StartsWithAny(s, Level1Tokens) THEN "level1"
    ELSE IF StartsWithAny(s, Level2Tokens) THEN "level2"
    ELSE IF StartsWithAny(s, Level3DotTokens) THEN "level3"
    ELSE IF StartsWithAny(s, Level3ParenTokens) THEN "level3"
    ELSE "body"

----------------------------------------------------------------------------
(* apply_font_formatting: the font of a run formatted as font_type *)

apply_font_formatting(font_type) ==
    LET settings == format_settings.fonts[font_type] IN
    [ size |-> settings.size,
      bold |-> IF "bold" \in DOMAIN settings THEN settings.bold ELSE FALSE,
      name |-> settings.name,
      eastAsia |-> IF settings.name \in EastAsianNames THEN settings.name ELSE "None" ]

----------------------------------------------------------------------------
(* process_document_structure *)

IsContent(para) == Strip(para.text) # <<>>

\* lines 182-184: the paragraphs that have content
content_paragraphs(paras) == SelectSeq(paras, IsContent)

\* lines 187-189: every paragraph of the source gets space_after = Pt(0)
ZeroSpaceAfter(paras) ==
    [k \in 1 .. Len(paras) |-> [paras[k] EXCEPT !.space_after = Pt(0)]]

TitleText(para) == Strip(para.text)

TitleFontTypeDetected(title_text) == detect_title_level(title_text)

\* line 199: the first content paragraph is formatted as title whatever it says
TitleFontType(title_text) == "title"

\* lines 193-200: the first content paragraph, as the title
TitleParagraph(para) ==
    [ text |-> TitleText(para),
      font |-> apply_font_formatting(TitleFontType(TitleText(para))),
      alignment |-> "CENTER",
      line_spacing |-> None,
      first_line_indent |-> None,
      space_after |-> format_settings.spacing.title_spacing ]

\* line 222: the line spacing of a paragraph after the title
ContentLineSpacing(lvl) == format_settings.spacing.line_spacing

\* lines 213-231: one paragraph after the title
ContentParagraph(para) ==
    LET text_content == Strip(para.text)
        lvl == detect_title_level(text_content)
    IN  [ text |-> text_content,
          font |-> apply_font_formatting(lvl),
          alignment |-> IF lvl = "body" THEN "JUSTIFY" ELSE "LEFT",
          line_spacing |-> ContentLineSpacing(lvl),
          first_line_indent |-> Pt(32),
          space_after |-> None ]

RestKeepsTitle(content) == content

\* line 209: the paragraphs the loop walks (title_processed holds exactly when
\* content_paragraphs is not empty)
Rest(content) == IF content # <<>> THEN Tail(content) ELSE content

\* lines 173-231: the paragraphs new_doc gets from the source's paragraphs
process_document_structure(paras) ==
    LET content == content_paragraphs(paras)
        rest == SelectSeq(Rest(content), IsContent)
    IN  (IF content # <<>> THEN <<TitleParagraph(content[1])>> ELSE <<>>)
        \o [k \in 1 .. Len(rest) |-> ContentParagraph(rest[k])]

----------------------------------------------------------------------------
(* add_signature_block *)

SignatureTextStripped(organization_name) == Strip(organization_name)

SignatureText(organization_name) == organization_name

\* lines 240-243
SignatureParagraph(organization_name) ==
    [ text |-> SignatureText(organization_name),
      font |-> apply_font_formatting("body"),
      alignment |-> "RIGHT",
      line_spacing |-> None,
      first_line_indent |-> None,
      space_after |-> None ]

add_signature_block(paras, organization_name) ==
    Append(paras, SignatureParagraph(organization_name))

----------------------------------------------------------------------------
(* Footers: add_page_numbers, add_manual_page_numbers, verify_page_numbers *)

FooterFont == format_settings.fonts.footer

TextRun(chars, size, name) ==
    [kind |-> "text", text |-> chars, instr |-> "None", size |-> size, name |-> name]

\* create_page_number_element, lines 98-112, with the font of lines 139-140:
\* a run that holds fldChar begin, instrText PAGE, fldChar end and no text
PageFieldRun ==
    [ kind |-> "field", text |-> <<>>, instr |-> "PAGE",
      size |-> FooterFont.size, name |-> FooterFont.name ]

DashRun == TextRun(<<"-">>, FooterFont.size, FooterFont.name)

\* lines 129-145
DynamicFooterParagraph ==
    [alignment |-> "CENTER", runs |-> <<DashRun, PageFieldRun, DashRun>>]

\* What a dynamic attempt leaves in the footer when the field insertion of line
\* 138 raises: the paragraph with its left "-" run, and the run of line 109
\* when that one was added before the failure.
HalfBuiltParagraphs ==
    { [alignment |-> "CENTER", runs |-> <<DashRun>>],
      [alignment |-> "CENTER", runs |-> <<DashRun, TextRun(<<>>, None, "None")>>] }

ManualPageNumberZeroBased(index) == index

\* line 167
ManualPageNumber(index) == index + 1

\* lines 163-170
ManualFooterParagraph(index) ==
    [ alignment |-> "CENTER",
      runs |-> << TextRun(<<"-", " ">> \o IntToStr(ManualPageNumber(index)) \o <<" ", "-">>,
                          FooterFont.size, FooterFont.name) >> ]

ClearFooterSkipping(paras) == [k \in 1 .. (Len(paras) \div 2) |-> paras[2 * k]]

\* lines 123-126 and 158-161: footer.paragraphs is a fresh list, so every
\* paragraph of the footer is removed
ClearFooter(paras) == <<>>

FieldFailurePropagates == "except"

\* lines 149-152: the except clause of add_page_numbers runs the fallback
OnFieldFailure == "manual"

RECURSIVE Concat(_)
Concat(seqs) == IF seqs = <<>> THEN <<>> ELSE Head(seqs) \o Concat(Tail(seqs))

\* Paragraph.text: the texts of the runs, in order
ParagraphText(para) == Concat([k \in 1 .. Len(para.runs) |-> para.runs[k].text])

Contains(chars, c) == \E k \in 1 .. Len(chars) : chars[k] = c

\* lines 292-303
has_page_numbers(sections) ==
    \E s \in 1 .. Len(sections) :
        \E k \in 1 .. Len(sections[s]) :
            /\ ParagraphText(sections[s][k]) # <<>>
            /\ Contains(ParagraphText(sections[s][k]), "-")

AfterVerifyPropagating(outcome) == IF outcome = "error" THEN "except" ELSE "return"

\* lines 277 and 310-312: verify_page_numbers catches what it raises and
\* format_document ignores what it returns
AfterVerify(outcome) == "return"

OnErrorTrue == "True"

\* lines 282-286
OnError == "False"

----------------------------------------------------------------------------
(* Inputs *)

SampleTexts ==
    { <<>>, <<" ">>, <<" ", "x", " ">>, <<"yi", "dun", "x">>,
      <<"1", ".", " ", "x">>, <<"LP", "yi", "RP", "x">>, <<"LP", "1", "RP">> }

Organizations == { <<>>, <<" ", "x", " ">> }

SeqsUpTo(S, n) == UNION { [1 .. k -> S] : k \in 0 .. n }

\* The documents Document(input_path) may return
Documents == SeqsUpTo([text : SampleTexts, space_after : {None}], MaxParas)

\* A footer paragraph that was there before add_page_numbers
OldFooterParagraphs ==
    { [alignment |-> "None", runs |-> <<>>],
      [alignment |-> "LEFT", runs |-> <<TextRun(<<"x">>, None, "None")>>] }

\* Document(): no body paragraph, one section; the footer of that section
\* starts with one empty paragraph
NewDocumentFooters == << <<[alignment |-> "None", runs |-> <<>>]>> >>

----------------------------------------------------------------------------
(* Actions of main and format_document *)

\* lines 332-333 and 358-363: the input path was given
MainWithInput ==
    /\ pc = "main"
    /\ argInput # "absent"
    /\ \E org \in Organizations : organization' = org
    /\ input_path' = argInput
    /\ pc' = "open"
    /\ UNCHANGED <<text, level, argInput, doc, page, body, footers, i,
                   fieldFailed, saveFailed, file, verified, result, exitStatus>>

\* lines 336-340: no input path and no Word file in the directory
MainNoWordFiles ==
    /\ pc = "main"
    /\ argInput = "absent"
    /\ exitStatus' = Exit(1)
    /\ pc' = "done"
    /\ UNCHANGED <<text, level, argInput, input_path, organization, doc, page, body,
                   footers, i, fieldFailed, saveFailed, file, verified, result>>

\* lines 347-356: the choice is out of range or is not a number
MainInvalidChoice ==
    /\ pc = "main"
    /\ argInput = "absent"
    /\ exitStatus' = Exit(1)
    /\ pc' = "done"
    /\ UNCHANGED <<text, level, argInput, input_path, organization, doc, page, body,
                   footers, i, fieldFailed, saveFailed, file, verified, result>>

\* lines 347-350: a file the directory listing found is chosen
MainChoosesFile ==
    /\ pc = "main"
    /\ argInput = "absent"
    /\ \E org \in Organizations : organization' = org
    /\ input_path' = "present"
    /\ pc' = "open"
    /\ UNCHANGED <<text, level, argInput, doc, page, body, footers, i,
                   fieldFailed, saveFailed, file, verified, result, exitStatus>>

\* line 254: Document(path) raises for a path that does not exist
CanOpen(path) == path = "present"

\* lines 250-254: the existence check only prints; Document(input_path) raises
\* for a path that does not exist, and may raise for a file it cannot read
ReadDocumentFails ==
    /\ pc = "open"
    /\ pc' = "except"
    /\ UNCHANGED <<text, level, argInput, input_path, organization, doc, page, body,
                   footers, i, fieldFailed, saveFailed, file, verified, result,
                   exitStatus>>

ReadDocument ==
    /\ pc = "open"
    /\ CanOpen(input_path)
    /\ \E d \in Documents : doc' = d
    /\ pc' = "new_doc"
    /\ UNCHANGED <<text, level, argInput, input_path, organization, page, body,
                   footers, i, fieldFailed, saveFailed, file, verified, result,
                   exitStatus>>

\* lines 257-261: new_doc and setup_page_layout
CreateNewDocument ==
    /\ pc = "new_doc"
    /\ body' = <<>>
    /\ footers' = NewDocumentFooters
    /\ page' = format_settings.page
    /\ pc' = "structure"
    /\ UNCHANGED <<text, level, argInput, input_path, organization, doc, i,
                   fieldFailed, saveFailed, file, verified, result, exitStatus>>

\* line 264
ProcessDocumentStructure ==
    /\ pc = "structure"
    /\ body' = body \o process_document_structure(doc)
    /\ doc' = ZeroSpaceAfter(doc)
    /\ pc' = "signature"
    /\ UNCHANGED <<text, level, argInput, input_path, organization, page, footers, i,
                   fieldFailed, saveFailed, file, verified, result, exitStatus>>

\* line 267
AddSignatureBlock ==
    /\ pc = "signature"
    /\ body' = add_signature_block(body, organization)
    /\ i' = 0
    /\ pc' = "page_numbers"
    /\ UNCHANGED <<text, level, argInput, input_path, organization, doc, page, footers,
                   fieldFailed, saveFailed, file, verified, result, exitStatus>>

\* lines 119-147: one section of the dynamic attempt
AddPageNumbersSection ==
    /\ pc = "page_numbers"
    /\ i < Len(footers)
    /\ footers' = [footers EXCEPT
                     ![i + 1] = Append(ClearFooter(@), DynamicFooterParagraph)]
    /\ i' = i + 1
    /\ UNCHANGED <<pc, text, level, argInput, input_path, organization, doc, page,
                   body, fieldFailed, saveFailed, file, verified, result, exitStatus>>

\* lines 119-138 and 149-150: the field insertion raises in section i + 1
AddPageNumbersFieldFails ==
    /\ pc = "page_numbers"
    /\ i < Len(footers)
    /\ \E half \in HalfBuiltParagraphs :
          footers' = [footers EXCEPT ![i + 1] = Append(ClearFooter(@), half)]
    /\ fieldFailed' = TRUE
    /\ pc' = OnFieldFailure
    /\ UNCHANGED <<text, level, argInput, input_path, organization, doc, page, body,
                   i, saveFailed, file, verified, result, exitStatus>>

\* lines 154-171: the fallback, over every section
AddManualPageNumbers ==
    /\ pc = "manual"
    /\ footers' = [s \in 1 .. Len(footers) |->
                     Append(ClearFooter(footers[s]), ManualFooterParagraph(s - 1))]
    /\ pc' = "save"
    /\ UNCHANGED <<text, level, argInput, input_path, organization, doc, page, body,
                   i, fieldFailed, saveFailed, file, verified, result, exitStatus>>

\* the loop of line 119 is over
AddPageNumbersReturn ==
    /\ pc = "page_numbers"
    /\ i = Len(footers)
    /\ pc' = "save"
    /\ UNCHANGED <<text, level, argInput, input_path, organization, doc, page, body,
                   footers, i, fieldFailed, saveFailed, file, verified, result,
                   exitStatus>>

\* lines 273-274
SaveDocument ==
    /\ pc = "save"
    /\ file' = [saved |-> TRUE, body |-> body, footers |-> footers]
    /\ pc' = "verify"
    /\ UNCHANGED <<text, level, argInput, input_path, organization, doc, page, body,
                   footers, i, fieldFailed, saveFailed, verified, result, exitStatus>>

\* line 274 raises: the output cannot be written
SaveDocumentFails ==
    /\ pc = "save"
    /\ saveFailed' = TRUE
    /\ pc' = "except"
    /\ UNCHANGED <<text, level, argInput, input_path, organization, doc, page, body,
                   footers, i, fieldFailed, file, verified, result, exitStatus>>

\* lines 277 and 288-312
VerifyPageNumbers ==
    /\ pc = "verify"
    /\ \E reopened \in BOOLEAN :
          verified' = IF ~reopened THEN "error"
                      ELSE IF has_page_numbers(file.footers) THEN "ok"
                      ELSE "warning"
    /\ pc' = AfterVerify(verified')
    /\ UNCHANGED <<text, level, argInput, input_path, organization, doc, page, body,
                   footers, i, fieldFailed, saveFailed, file, result, exitStatus>>

\* lines 279-280
FormatDocumentReturn ==
    /\ pc = "return"
    /\ result' = "True"
    /\ pc' = "main_ret"
    /\ UNCHANGED <<text, level, argInput, input_path, organization, doc, page, body,
                   footers, i, fieldFailed, saveFailed, file, verified, exitStatus>>

\* lines 282-286
FormatDocumentExcept ==
    /\ pc = "except"
    /\ result' = OnError
    /\ pc' = "main_ret"
    /\ UNCHANGED <<text, level, argInput, input_path, organization, doc, page, body,
                   footers, i, fieldFailed, saveFailed, file, verified, exitStatus>>

\* lines 366-368
MainExit ==
    /\ pc = "main_ret"
    /\ exitStatus' = IF result = "True" THEN Exit(0) ELSE Exit(1)
    /\ pc' = "done"
    /\ UNCHANGED <<text, level, argInput, input_path, organization, doc, page, body,
                   footers, i, fieldFailed, saveFailed, file, verified, result>>

\* a call of detect_title_level
Classify ==
    /\ pc = "classify"
    /\ level' = detect_title_level(text)
    /\ pc' = "classified"
    /\ UNCHANGED <<text, argInput, input_path, organization, doc, page, body, footers,
                   i, fieldFailed, saveFailed, file, verified, result, exitStatus>>

----------------------------------------------------------------------------
(* Specifications *)

Idle ==
    /\ text = <<>>
    /\ level = "none"
    /\ input_path = "unset"
    /\ organization = <<>>
    /\ doc = <<>>
    /\ page = None
    /\ body = <<>>
    /\ i = 0
    /\ fieldFailed = FALSE
    /\ saveFailed = FALSE
    /\ file = NoFile
    /\ verified = "none"
    /\ result = "none"
    /\ exitStatus = Running

\* One run of the tool
Init ==
    /\ pc = "main"
    /\ argInput \in {"absent", "missing", "present"}
    /\ footers = <<>>
    /\ Idle

Next ==
    \/ MainWithInput
    \/ MainNoWordFiles
    \/ MainInvalidChoice
    \/ MainChoosesFile
    \/ ReadDocumentFails
    \/ ReadDocument
    \/ CreateNewDocument
    \/ ProcessDocumentStructure
    \/ AddSignatureBlock
    \/ AddPageNumbersSection
    \/ AddPageNumbersFieldFails
    \/ AddManualPageNumbers
    \/ AddPageNumbersReturn
    \/ SaveDocument
    \/ SaveDocumentFails
    \/ VerifyPageNumbers
    \/ FormatDocumentReturn
    \/ FormatDocumentExcept
    \/ MainExit

Spec == Init /\ [][Next]_vars

\* add_page_numbers on a document of any number of sections
InitFooter ==
    /\ pc = "page_numbers"
    /\ argInput = "present"
    /\ footers \in (SeqsUpTo(SeqsUpTo(OldFooterParagraphs, MaxFooterParas), MaxSections)
                      \ {<<>>})
    /\ Idle

NextFooter ==
    \/ AddPageNumbersSection
    \/ AddPageNumbersFieldFails
    \/ AddManualPageNumbers
    \/ AddPageNumbersReturn

SpecFooter == InitFooter /\ [][NextFooter]_vars

\* detect_title_level on every text of at most MaxLen characters
InitClassify ==
    /\ pc = "classify"
    /\ argInput = "present"
    /\ footers = <<>>
    /\ text \in SeqsUpTo(Alphabet, MaxLen)
    /\ level = "none"
    /\ input_path = "unset"
    /\ organization = <<>>
    /\ doc = <<>>
    /\ page = None
    /\ body = <<>>
    /\ i = 0
    /\ fieldFailed = FALSE
    /\ saveFailed = FALSE
    /\ file = NoFile
    /\ verified = "none"
    /\ result = "none"
    /\ exitStatus = Running

NextClassify == Classify

SpecClassify == InitClassify /\ [][NextClassify]_vars

----------------------------------------------------------------------------
(* What the properties below speak of *)

\* process_document_structure has run
StructureDone == pc = "signature" \/ body # <<>>

\* add_signature_block has run and the run has not failed since
SignatureDone ==
    pc \in {"page_numbers", "manual", "save", "verify", "return"} \/ result = "True"

\* the paragraphs process_document_structure emitted
ContentOut ==
    IF pc = "signature" THEN body ELSE SubSeq(body, 1, Len(body) - 1)

\* the stripped texts of the non-blank paragraphs, in order
RECURSIVE NonBlankStripped(_)
NonBlankStripped(paras) ==
    IF paras = <<>> THEN <<>>
    ELSE (IF Strip(Head(paras).text) = <<>> THEN <<>> ELSE <<Strip(Head(paras).text)>>)
         \o NonBlankStripped(Tail(paras))

HasNonBlank(paras) == \E k \in 1 .. Len(paras) : Strip(paras[k].text) # <<>>

TitleStyled(para) ==
    /\ para.font.name = format_settings.fonts.title.name
    /\ para.font.size = format_settings.fonts.title.size
    /\ para.alignment = "CENTER"

IsDigit(c) == \E d \in 1 .. Len(DigitChars) : DigitChars[d] = c

DigitValue(c) == (CHOOSE d \in 1 .. Len(DigitChars) : DigitChars[d] = c) - 1

RECURSIVE LeadingDigits(_)
LeadingDigits(s) ==
    IF s # <<>> /\ IsDigit(Head(s)) THEN <<Head(s)>> \o LeadingDigits(Tail(s)) ELSE <<>>

RECURSIVE ParseInt(_)
ParseInt(ds) ==
    IF ds = <<>> THEN 0
    ELSE 10 * ParseInt(SubSeq(ds, 1, Len(ds) - 1)) + DigitValue(ds[Len(ds)])

\* s begins with the decimal numeral of an integer of lo .. hi and then closer
NumeralThen(s, lo, hi, closer) ==
    LET ds == LeadingDigits(s) IN
    /\ ds # <<>>
    /\ ds[1] # "0"
    /\ ParseInt(ds) \in lo .. hi
    /\ Len(s) > Len(ds)
    /\ s[Len(ds) + 1] = closer

Rule1(s) == Len(s) >= 2 /\ s[1] \in CJKNumerals /\ s[2] = "dun"
Rule2(s) == Len(s) >= 3 /\ s[1] = "LP" /\ s[2] \in CJKNumerals /\ s[3] = "RP"
Rule3(s) == NumeralThen(s, 1, 19, ".")
Rule4(s) == s # <<>> /\ s[1] = "LP" /\ NumeralThen(Tail(s), 1, 10, "RP")

RuleLevel(s) ==
    IF Rule1(s) THEN "level1"
    ELSE IF Rule2(s) THEN "level2"
    ELSE IF Rule3(s) THEN "level3"
    ELSE IF Rule4(s) THEN "level3"
    ELSE "body"

RulesMatching(s) ==
    {r \in 1 .. 4 : \/ r = 1 /\ Rule1(s)
                    \/ r = 2 /\ Rule2(s)
                    \/ r = 3 /\ Rule3(s)
                    \/ r = 4 /\ Rule4(s)}

HasDynamicField(footer) ==
    \E k \in 1 .. Len(footer) :
        \E r \in 1 .. Len(footer[k].runs) - 2 :
            /\ footer[k].runs[r].kind = "text" /\ footer[k].runs[r].text = <<"-">>
            /\ footer[k].runs[r + 1].kind = "field" /\ footer[k].runs[r + 1].instr = "PAGE"
            /\ footer[k].runs[r + 2].kind = "text" /\ footer[k].runs[r + 2].text = <<"-">>

\* the footer holds the literal "- n -", n written in decimal
HasLiteral(footer, n) ==
    \E k \in 1 .. Len(footer) :
        LET t == ParagraphText(footer[k]) IN
        /\ Len(t) >= 5
        /\ SubSeq(t, 1, 2) = <<"-", " ">>
        /\ SubSeq(t, Len(t) - 1, Len(t)) = <<" ", "-">>
        /\ LeadingDigits(SubSeq(t, 3, Len(t) - 2)) = SubSeq(t, 3, Len(t) - 2)
        /\ t[3] # "0"
        /\ ParseInt(SubSeq(t, 3, Len(t) - 2)) = n

----------------------------------------------------------------------------
(* Properties *)

\* C1: the paragraphs process_document_structure emits are exactly the
\* stripped texts of the non-blank input paragraphs, one each, in the same
\* order, and none of them is blank.
C1_ContentIsNonBlankStripped ==
    StructureDone =>
        /\ Len(ContentOut) = Len(NonBlankStripped(doc))
        /\ \A k \in 1 .. Len(ContentOut) :
              /\ ContentOut[k].text = NonBlankStripped(doc)[k]
              /\ Strip(ContentOut[k].text) # <<>>

C1_Witness ==
    /\ pc = "signature"
    /\ Len(doc) = 3
    /\ doc[1].text = <<" ", "x", " ">>
    /\ Strip(doc[2].text) = <<>>
    /\ Strip(doc[3].text) # <<>>
    /\ Len(body) = 2
    /\ body[1].text = <<"x">>

\* C2: when the input has a non-blank paragraph, the first output paragraph is
\* styled as title (title font, centered) whatever its text, and no later
\* paragraph is: the output has exactly one title paragraph.
C2_ExactlyOneTitle ==
    (StructureDone /\ HasNonBlank(doc)) =>
        /\ TitleStyled(body[1])
        /\ body[1].font = apply_font_formatting("title")
        /\ \A k \in 2 .. Len(body) :
              /\ body[k].font.name # format_settings.fonts.title.name
              /\ body[k].alignment # "CENTER"
        /\ Cardinality({k \in 1 .. Len(body) : TitleStyled(body[k])}) = 1

C2_Witness ==
    /\ pc = "done"
    /\ result = "True"
    /\ Len(doc) = 2
    /\ doc[1].text = <<"1", ".", " ", "x">>
    /\ doc[2].text = <<"yi", "dun", "x">>
    /\ detect_title_level(doc[1].text) = "level3"
    /\ TitleStyled(body[1])
    /\ body[2].font = apply_font_formatting("level1")

\* C3: detect_title_level returns the category of the first rule, in the order
\* level1, level2, "N." for N in 1..19, full-width "(N)" for N in 1..10, that the
\* stripped text satisfies, and body when it satisfies none; no text satisfies
\* two rules; and the five examples of the specification get their categories.
C3_FirstMatchWins ==
    /\ pc = "classified" =>
          /\ level = RuleLevel(Strip(text))
          /\ Cardinality(RulesMatching(Strip(text))) <= 1
    /\ detect_title_level(<<"yi", "dun", "x", "x">>) = "level1"
    /\ detect_title_level(<<"LP", "san", "RP", "x", "x", "x", "x">>) = "level2"
    /\ detect_title_level(<<"5", ".", " ", "x", "x">>) = "level3"
    /\ detect_title_level(<<"LP", "7", "RP", "x", "x">>) = "level3"
    /\ detect_title_level(<<"x", "x", "x", "x", ".", ".", ".">>) = "body"

C3_Witness ==
    /\ pc = "classified"
    /\ text = <<" ", "1", "9", ".">>
    /\ level = "level3"

\* C4: after add_page_numbers every section's footer holds the PAGE field
\* between two "-" runs, or, when the field insertion failed, the literal
\* "- N -" with N the section's 1-based index, whichever section failed.
C4_FooterFieldOrLiteral ==
    pc = "save" =>
        \A s \in 1 .. Len(footers) :
            /\ ~fieldFailed => HasDynamicField(footers[s])
            /\ fieldFailed => HasLiteral(footers[s], s)

C4_Witness ==
    /\ pc = "save"
    /\ fieldFailed
    /\ i >= 1
    /\ Len(footers) >= 2
    /\ HasLiteral(footers[1], 1)
    /\ HasLiteral(footers[2], 2)

\* C5: with an input path that does not exist the run ends with a non-zero
\* exit status, the save step never runs and no output file is written.
C5_MissingInputFails ==
    input_path = "missing" =>
        /\ file = NoFile
        /\ pc \notin {"save", "verify", "return"}
        /\ pc = "done" => exitStatus = Exit(1)

C5_Witness ==
    /\ pc = "done"
    /\ input_path = "missing"
    /\ exitStatus = Exit(1)
    /\ result = "False"

\* C6: a failed field insertion is caught inside add_page_numbers and replaced
\* with the static fallback; it never reaches the except clause of
\* format_document, and unless the save itself fails the document is saved,
\* format_document returns True and the exit status is 0.
C6_FieldFailureIsLocal ==
    fieldFailed =>
        /\ pc = "except" => saveFailed
        /\ pc # "manual" =>
              \A s \in 1 .. Len(footers) : footers[s] = <<ManualFooterParagraph(s - 1)>>
        /\ (pc = "done" /\ ~saveFailed) =>
              /\ file # NoFile
              /\ result = "True"
              /\ exitStatus = Exit(0)

C6_Witness ==
    /\ pc = "done"
    /\ fieldFailed
    /\ file # NoFile
    /\ file.footers = << <<ManualFooterParagraph(0)>> >>
    /\ result = "True"
    /\ exitStatus = Exit(0)

\* C7: every paragraph of the output body other than the title paragraph,
\* the signature paragraph included, has its line spacing set to 28 pt.
C7_LineSpacingEveryNonTitle ==
    SignatureDone =>
        \A k \in 1 .. Len(body) :
            (k = 1 /\ HasNonBlank(doc)) \/ body[k].line_spacing = Pt(28)

\* C8: a successful run appends exactly one signature paragraph, the last of
\* the body, right-aligned, with the organization string verbatim (the empty
\* string too), so that the body has one paragraph more than the input has
\* non-blank paragraphs.
C8_OneSignatureLast ==
    SignatureDone =>
        /\ Len(body) = Len(NonBlankStripped(doc)) + 1
        /\ body[Len(body)].text = organization
        /\ body[Len(body)].alignment = "RIGHT"
        /\ Cardinality({k \in 1 .. Len(body) : body[k].alignment = "RIGHT"}) = 1

C8_Witness ==
    /\ pc = "done"
    /\ result = "True"
    /\ organization = <<>>
    /\ Len(doc) = 2
    /\ ~HasNonBlank(doc)
    /\ Len(body) = 1
    /\ body[1].text = <<>>

\* C9: verification runs only after the output was saved, leaves the saved
\* file as it was saved, and whatever it finds, or when reopening raises,
\* format_document returns True and the exit status is 0.
C9_VerificationIsHarmless ==
    /\ pc = "verify" => file # NoFile
    /\ verified # "none" =>
          /\ file = [saved |-> TRUE, body |-> body, footers |-> footers]
          /\ pc # "except"
          /\ pc = "done" => (result = "True" /\ exitStatus = Exit(0))

C9_Witness ==
    /\ pc = "done"
    /\ verified = "error"
    /\ file # NoFile
    /\ result = "True"
    /\ exitStatus = Exit(0)

\* C10: after add_page_numbers every section's footer holds exactly one
\* paragraph, whatever it held before and whether or not the fallback ran.
C10_OneFooterParagraph ==
    /\ pc = "save" => \A s \in 1 .. Len(footers) : Len(footers[s]) = 1
    /\ pc = "page_numbers" => \A s \in 1 .. i : Len(footers[s]) = 1

C10_Witness ==
    /\ pc = "save"
    /\ fieldFailed
    /\ i = 1
    /\ Len(footers) = 3
    /\ \A s \in 1 .. 3 : Len(footers[s]) = 1

====
